---------------------------- MODULE Spec2Model ----------------------------
(***************************************************************************)
(* Model of the monitoring pipeline of mlops-ex: PredictionLogger          *)
(* (src/src/monitoring.py), MetricsTracker (src/src/metrics.py),           *)
(* DriftDetector (src/src/drift_detection.py) and RetrainingManager        *)
(* (src/src/retraining.py).                                                *)
(*                                                                         *)
(* Conventions.                                                            *)
(*  - A Python float is modelled by the exact rational it denotes, a pair  *)
(*    <<num, den>> with den > 0 in lowest terms (binary rounding is not    *)
(*    modelled).  Confidences and scores are given in hundredths.          *)
(*  - A value whose Python type decides what the code does with it (bool   *)
(*    against numpy.bool_, float against numpy.float64) carries its type.  *)
(*  - A dict is a function on its key set; the score map, whose iteration  *)
(*    order decides max(), is a sequence of <<label, score>> pairs.        *)
(*  - A JSON object (one line of a .jsonl file, or the baseline file) is   *)
(*    a sequence of <<key, value>> pairs in the order json.dumps writes.   *)
(*  - A timestamp is the reading of the clock, an integer; isoformat() and *)
(*    fromisoformat() keep the order of clock readings.                    *)
(***************************************************************************)
EXTENDS Integers, Sequences, FiniteSets, TLC

VARIABLES
    log_file,                    \* PredictionLogger.log_file: NoFile or its lines
    baseline_file,               \* DriftDetector.baseline_file: NoFile or a JSON object
    drift_report_file,           \* DriftDetector.drift_report_file: NoFile or its lines
    trigger_file,                \* RetrainingManager.trigger_file: NoFile or its lines
    now,                         \* datetime.now()
    drift_threshold,             \* DriftDetector.drift_threshold
    min_samples_for_retraining,  \* RetrainingManager.min_samples_for_retraining
    confidence_threshold,        \* RetrainingManager.confidence_threshold
    call,                        \* the last call: operation, arguments, locals, outcome
    threads                      \* concurrent callers of the DriftDetector

vars == <<log_file, baseline_file, drift_report_file, trigger_file, now,
          drift_threshold, min_samples_for_retraining, confidence_threshold,
          call, threads>>

-----------------------------------------------------------------------------
(* Bounds of the model.                                                    *)

MaxLogs == 2        \* longest record list handed to an engine
MaxClock == 1       \* last clock reading
MaxStore == 2       \* most lines in the prediction log
MaxHist == 2        \* most lines in a history file

\* a file: absent (Path.exists() is false), or present with its content
NoFile == [exists |-> FALSE]
File(content) == [exists |-> TRUE, content |-> content]

None == [None |-> TRUE]

-----------------------------------------------------------------------------
(* Rationals.                                                              *)

Abs(x) == IF x < 0 THEN -x ELSE x

RECURSIVE Gcd(_, _)
Gcd(a, b) == IF b = 0 THEN a ELSE Gcd(b, a % b)

Rat(n, d) ==
    LET g == Gcd(Abs(n), Abs(d))
        s == IF d < 0 THEN -1 ELSE 1
    IN  <<(s * n) \div g, (s * d) \div g>>

RSub(a, b) == Rat(a[1] * b[2] - b[1] * a[2], a[2] * b[2])
RLess(a, b) == a[1] * b[2] < b[1] * a[2]
RAbsSigned(a) == a
RAbs(a) == <<Abs(a[1]), a[2]>>
Zero == Rat(0, 1)
One == Rat(1, 1)

\* f"{x:.4f}": x in ten-thousandths, rounded to nearest, ties to even
Fmt4(a) ==
    LET n == Abs(a[1]) * 10000
        q == n \div a[2]
        r == n % a[2]
        up == (2 * r > a[2]) \/ (2 * r = a[2] /\ q % 2 = 1)
        m == IF up THEN q + 1 ELSE q
    IN  IF a[1] < 0 THEN -m ELSE m

-----------------------------------------------------------------------------
(* Python values that carry their type.                                    *)

PyBool(b) == [type |-> "bool", value |-> b]
NpBool(b) == [type |-> "numpy.bool_", value |-> b]
PyFloat(q) == [type |-> "float", value |-> q]
NpFloat(q) == [type |-> "numpy.float64", value |-> q]

\* x and y, x or y: the operand that decides the result is returned
PyOr(x, y) == IF x.value THEN x ELSE y
PyAndAsOr(x, y) == PyOr(x, y)
PyAnd(x, y) == IF x.value THEN y ELSE x

\* a comparison with a numpy scalar on either side gives a numpy.bool_
PyGtOrEqual(x, y) ==
    IF x.type = "numpy.float64" \/ y.type = "numpy.float64"
    THEN NpBool(~RLess(x.value, y.value))
    ELSE PyBool(~RLess(x.value, y.value))
PyGt(x, y) ==
    IF x.type = "numpy.float64" \/ y.type = "numpy.float64"
    THEN NpBool(RLess(y.value, x.value))
    ELSE PyBool(RLess(y.value, x.value))

\* max in the place of min
PyMinAsMax(x, y) == IF RLess(x.value, y.value) THEN y ELSE x

\* min(x, y): y only when y < x
PyMin(x, y) == IF RLess(y.value, x.value) THEN y ELSE x

-----------------------------------------------------------------------------
(* Sequences.                                                              *)

RECURSIVE SumSeq(_)
SumSeq(s) == IF s = <<>> THEN 0 ELSE Head(s) + SumSeq(Tail(s))

RECURSIVE SelectSeqBy(_, _)
SelectSeqBy(s, S) ==
    IF s = <<>> THEN <<>>
    ELSE IF Head(s) \in S THEN <<Head(s)>> \o SelectSeqBy(Tail(s), S)
         ELSE SelectSeqBy(Tail(s), S)

RECURSIVE SeqsUpTo(_, _)
SeqsUpTo(S, n) ==
    IF n = 0 THEN {<<>>}
    ELSE LET shorter == SeqsUpTo(S, n - 1)
         IN  shorter \cup {Append(s, x) : s \in shorter, x \in S}

Range(s) == {s[i] : i \in DOMAIN s}


RECURSIVE SortSet(_)
SortSet(S) ==
    IF S = {} THEN <<>>
    ELSE LET m == CHOOSE x \in S : \A y \in S : x <= y
         IN  <<m>> \o SortSet(S \ {m})

RECURSIVE LcmSet(_)
LcmSet(S) ==
    IF S = {} THEN 1
    ELSE LET d == CHOOSE x \in S : TRUE
             l == LcmSet(S \ {d})
         IN  (d * l) \div Gcd(d, l)

-----------------------------------------------------------------------------
(* JSON documents.                                                         *)

\* json.dumps of a dict: its items in key order
JsonDumps(d, keys) == [i \in 1..Len(keys) |-> <<keys[i], d[keys[i]]>>]

\* json.loads of an object: a dict, the last pair of a key deciding its value
JsonLoads(obj) ==
    [k \in {obj[i][1] : i \in DOMAIN obj} |->
        LET last == CHOOSE i \in DOMAIN obj :
                        /\ obj[i][1] = k
                        /\ \A j \in DOMAIN obj : obj[j][1] = k => j <= i
        IN  obj[last][2]]

\* line.strip() is empty
BlankLine == <<>>

-----------------------------------------------------------------------------
(* PredictionLog and the labels of analyze_sentiment.                      *)

\* sorted(): the labels in lexicographic order
LabelOrder == <<"Negativo", "Neutro", "Positivo">>
Labels == Range(LabelOrder)

SortedKeys(S) == SelectSeqBy(LabelOrder, S)

PredictionLog(timestamp, text, sentiment, confidence, scores) ==
    [timestamp |-> timestamp, text |-> text, sentiment |-> sentiment,
     confidence |-> confidence, scores |-> scores]

PredictionLogKeys == <<"timestamp", "text", "sentiment", "confidence", "scores">>

\* min in the place of max
ArgMaxAsMin(scores) ==
    LET least == CHOOSE i \in DOMAIN scores :
                     /\ \A j \in DOMAIN scores : scores[i][2] <= scores[j][2]
                     /\ \A j \in DOMAIN scores :
                            scores[j][2] = scores[i][2] => i <= j
    IN  scores[least][1]

\* max(sentiment_scores, key=sentiment_scores.get): the first key, in the
\* dict's order, whose score no other key's score exceeds
ArgMax(scores) ==
    LET best == CHOOSE i \in DOMAIN scores :
                    /\ \A j \in DOMAIN scores : scores[j][2] <= scores[i][2]
                    /\ \A j \in DOMAIN scores :
                           scores[j][2] = scores[i][2] => i <= j
    IN  scores[best][1]

ScoreOf(scores, label) ==
    LET i == CHOOSE j \in DOMAIN scores : scores[j][1] = label
    IN  scores[i][2]

\* the score maps a caller hands to log_prediction, in hundredths
ScoreMaps ==
    { <<<<"Negativo", 5>>, <<"Neutro", 5>>, <<"Positivo", 90>>>>,
      <<<<"Negativo", 60>>, <<"Neutro", 30>>, <<"Positivo", 10>>>>,
      <<<<"Negativo", 10>>, <<"Neutro", 45>>, <<"Positivo", 45>>>> }

Texts == {"text"}

\* the records log_prediction builds from the score maps
LogOf(timestamp, text, scores) ==
    PredictionLog(timestamp, text, ArgMax(scores),
                  ScoreOf(scores, ArgMax(scores)), scores)

\* the record lists handed to the engines: a confident "Positivo" and an
\* unsure "Negativo"
ConfidentPositivo == << <<"Negativo", 5>>, <<"Neutro", 5>>, <<"Positivo", 90>> >>
UnsureNegativo == << <<"Negativo", 60>>, <<"Neutro", 30>>, <<"Positivo", 10>> >>
EngineScoreMaps == {ConfidentPositivo, UnsureNegativo}
EngineLogs == {LogOf(0, "text", s) : s \in EngineScoreMaps}
LogLists == SeqsUpTo(EngineLogs, MaxLogs)

-----------------------------------------------------------------------------
(* MetricsTracker.calculate_metrics                                        *)

\* the keys without their counts
CounterOfOnes(items) == [k \in Range(items) |-> 1]

\* dict(Counter(items))
Counter(items) ==
    [k \in Range(items) |-> Cardinality({i \in DOMAIN items : items[i] = k})]

ConfidenceSum(logs) == SumSeq([i \in DOMAIN logs |-> logs[i].confidence])

calculate_metrics(logs) ==
    IF logs = <<>>
    THEN [timestamp |-> now, total_predictions |-> 0,
          sentiment_distribution |-> <<>>, sentiment_percentages |-> <<>>,
          average_confidence |-> Zero, confidence_by_sentiment |-> <<>>]
    ELSE LET sentiments == [i \in DOMAIN logs |-> logs[i].sentiment]
             sentiment_distribution == Counter(sentiments)
             total == Len(logs)
             sentiment_logs(s) == SelectSeq(logs, LAMBDA l : l.sentiment = s)
         IN  [timestamp |-> now,
              total_predictions |-> total,
              sentiment_distribution |-> sentiment_distribution,
              sentiment_percentages |->
                  [s \in DOMAIN sentiment_distribution |->
                      Rat(sentiment_distribution[s] * 100, total)],
              average_confidence |-> Rat(ConfidenceSum(logs), 100 * total),
              confidence_by_sentiment |->
                  [s \in DOMAIN sentiment_distribution |->
                      Rat(ConfidenceSum(sentiment_logs(s)),
                          100 * Len(sentiment_logs(s)))]]

\* {sentiment: pct / 100.0}
Normalized(percentages) ==
    [s \in DOMAIN percentages |-> Rat(percentages[s][1], 100 * percentages[s][2])]

-----------------------------------------------------------------------------
(* scipy.stats.wasserstein_distance(u_values, v_values): the first          *)
(* Wasserstein distance between the empirical distributions of two SAMPLES, *)
(* the integral of |U - V| over their cdfs; an empty sample is a ValueError.*)

ValueError == [type |-> "ValueError"]
TypeError == [type |-> "TypeError"]

wasserstein_distance(u_values, v_values) ==
    IF u_values = <<>> \/ v_values = <<>> THEN ValueError
    ELSE LET D == LcmSet({q[2] : q \in Range(u_values) \cup Range(v_values)})
             scaled(q) == q[1] * (D \div q[2])
             u == [i \in DOMAIN u_values |-> scaled(u_values[i])]
             v == [i \in DOMAIN v_values |-> scaled(v_values[i])]
             all_values == SortSet(Range(u) \cup Range(v))
             cdf(w, x) == Cardinality({i \in DOMAIN w : w[i] <= x})
             term(j) ==
                 Abs(cdf(u, all_values[j]) * Len(v) - cdf(v, all_values[j]) * Len(u))
                     * (all_values[j + 1] - all_values[j])
         IN  NpFloat(Rat(SumSeq([j \in 1..(Len(all_values) - 1) |-> term(j)]),
                         Len(u) * Len(v) * D))

-----------------------------------------------------------------------------
(* DriftDetector                                                           *)

BaselineKeys == <<"timestamp", "distribution", "total_samples", "average_confidence">>

\* what set_baseline writes to baseline_file
BaselineData(logs) ==
    LET metrics == calculate_metrics(logs)
        baseline_data ==
            [timestamp |-> now,
             distribution |-> Normalized(metrics.sentiment_percentages),
             total_samples |-> metrics.total_predictions,
             average_confidence |-> metrics.average_confidence]
    IN  JsonDumps(baseline_data, BaselineKeys)

get_baseline ==
    IF ~baseline_file.exists THEN None ELSE JsonLoads(baseline_file.content)

\* dist.get(k, 0.0)
DistGet(dist, k) == IF k \in DOMAIN dist THEN dist[k] ELSE Zero

_calculate_wasserstein_distance(dist1, dist2) ==
    LET all_keys == SortedKeys(DOMAIN dist1 \cup DOMAIN dist2)
        values1 == [i \in DOMAIN all_keys |-> DistGet(dist1, all_keys[i])]
        values2 == [i \in DOMAIN all_keys |-> DistGet(dist2, all_keys[i])]
        distance == wasserstein_distance(values1, values2)
    IN  IF distance = ValueError THEN ValueError
        ELSE PyMin(distance, PyFloat(One))

DriftReport(timestamp, drift_detected, drift_score, threshold, baseline_distribution, current_distribution, average_confidence_change, recommendations) ==
    [timestamp |-> timestamp, drift_detected |-> drift_detected,
     drift_score |-> drift_score, drift_threshold |-> threshold,
     baseline_distribution |-> baseline_distribution,
     current_distribution |-> current_distribution,
     average_confidence_change |-> average_confidence_change,
     recommendations |-> recommendations]

DriftReportKeys ==
    <<"timestamp", "drift_detected", "drift_score", "drift_threshold",
      "baseline_distribution", "current_distribution",
      "average_confidence_change", "recommendations">>

BootstrapReport ==
    DriftReport(now, PyBool(FALSE), PyFloat(Zero), drift_threshold, <<>>, <<>>, Zero,
                << <<"Baseline non trovato, creato con i dati attuali">> >>)

DriftAdvisory(drift_score) ==
    << <<"DRIFT RILEVATO! Score", Fmt4(drift_score.value), "soglia", drift_threshold>>,
       <<"La distribuzione dei sentiment e' cambiata significativamente">> >>

ConfidenceAdvisory(confidence_change) ==
    << <<"La confidenza media e'",
         IF RLess(confidence_change, Zero) THEN "diminuita" ELSE "aumentata",
         "di", Fmt4(RAbs(confidence_change))>> >>

RetrainingAdvisory ==
    << <<"CONSIDERARE IL RETRAINING: La confidenza e' diminuita significativamente">> >>

\* the comparison of detect_drift, lines 150-204: the report, or the
\* ValueError of the distance
CompareReport(baseline, logs) ==
    LET current_metrics == calculate_metrics(logs)
        current_dist == Normalized(current_metrics.sentiment_percentages)
        baseline_dist == baseline["distribution"]
        drift_score == _calculate_wasserstein_distance(baseline_dist, current_dist)
        baseline_confidence ==
            IF "average_confidence" \in DOMAIN baseline
            THEN baseline["average_confidence"] ELSE Rat(1, 2)
        confidence_change == RSub(current_metrics.average_confidence, baseline_confidence)
        drift_detected == PyGt(drift_score, PyFloat(drift_threshold))
        recommendations ==
            (IF drift_detected.value THEN DriftAdvisory(drift_score) ELSE <<>>)
            \o (IF RLess(Rat(5, 100), RAbs(confidence_change))
                THEN ConfidenceAdvisory(confidence_change) ELSE <<>>)
            \o (IF RLess(confidence_change, Rat(-1, 10))
                THEN RetrainingAdvisory ELSE <<>>)
    IN  IF drift_score = ValueError THEN ValueError
        ELSE DriftReport(now, drift_detected, drift_score, drift_threshold,
                         baseline_dist, current_dist, confidence_change,
                         recommendations)

\* if logs: self.set_baseline(logs)
BootstrapWriteAlways(logs) == File(BaselineData(logs))
BootstrapWrite(logs) == IF logs # <<>> THEN File(BaselineData(logs)) ELSE baseline_file

\* `if not baseline ...` in the place of `if baseline is None`
detect_driftFalsy(baseline, logs) ==
    IF baseline = None \/ DOMAIN baseline["distribution"] = {}
    THEN [result |-> BootstrapReport, baseline_file |-> BootstrapWrite(logs)]
    ELSE [result |-> CompareReport(baseline, logs), baseline_file |-> baseline_file]

\* detect_drift(logs) from the baseline it read: what it returns (or raises)
\* and what it leaves in baseline_file
detect_drift(baseline, logs) ==
    IF baseline = None
    THEN [result |-> BootstrapReport, baseline_file |-> BootstrapWrite(logs)]
    ELSE [result |-> CompareReport(baseline, logs), baseline_file |-> baseline_file]

-----------------------------------------------------------------------------
(* RetrainingManager.evaluate_retraining_need                              *)

RetrainingTrigger(timestamp, triggered, reason, confidence_threshold_met, drift_threshold_met, min_samples_met, recommended_action) ==
    [timestamp |-> timestamp, triggered |-> triggered, reason |-> reason,
     confidence_threshold_met |-> confidence_threshold_met,
     drift_threshold_met |-> drift_threshold_met,
     min_samples_met |-> min_samples_met,
     recommended_action |-> recommended_action]

RetrainingTriggerKeys ==
    <<"timestamp", "triggered", "reason", "confidence_threshold_met",
      "drift_threshold_met", "min_samples_met", "recommended_action">>

\* sep.join(parts)
JoinFirstOnly(sep, parts) == IF parts = <<>> THEN parts ELSE <<Head(parts)>>
RECURSIVE Join(_, _)
Join(sep, parts) ==
    IF Len(parts) <= 1 THEN parts
    ELSE <<Head(parts), sep>> \o Join(sep, Tail(parts))

InsufficientSamples(logs) ==
    <<"Campioni insufficienti", Len(logs), min_samples_for_retraining>>
LowConfidence(metrics) ==
    <<"Confidenza media bassa", Fmt4(metrics.average_confidence), confidence_threshold>>
DriftFound(drift_report) == <<"Drift rilevato: score", Fmt4(drift_report.drift_score.value)>>
NoRetrainingNeeded == << <<"Nessuna necessita' di retraining">> >>
Separator == <<" | ">>

\* lines 71-125, after detect_drift has returned drift_report
TriggerOf(logs, drift_report) ==
    LET timestamp == now
        min_samples_met == PyBool(Len(logs) >= min_samples_for_retraining)
        metrics == calculate_metrics(logs)
        confidence_threshold_met ==
            PyBool(RLess(metrics.average_confidence, confidence_threshold))
        drift_threshold_met == drift_report.drift_detected
        triggered ==
            PyAnd(min_samples_met, PyOr(confidence_threshold_met, drift_threshold_met))
        reasons ==
            (IF ~min_samples_met.value THEN <<InsufficientSamples(logs)>> ELSE <<>>)
            \o (IF confidence_threshold_met.value THEN <<LowConfidence(metrics)>> ELSE <<>>)
            \o (IF drift_threshold_met.value THEN <<DriftFound(drift_report)>> ELSE <<>>)
        reason == IF reasons # <<>> THEN Join(Separator, reasons) ELSE NoRetrainingNeeded
        recommended_action ==
            IF triggered.value THEN "ESEGUIRE RETRAINING" ELSE "CONTINUE MONITORING"
    IN  RetrainingTrigger(timestamp, triggered, reason, confidence_threshold_met,
                          drift_threshold_met, min_samples_met, recommended_action)

\* evaluate_retraining_need(logs), its detect_drift having read `baseline`
evaluate_retraining_need(baseline, logs) ==
    LET drift == detect_drift(baseline, logs)
    IN  [drift_report |-> drift.result,
         result |-> IF drift.result = ValueError THEN ValueError
                    ELSE TriggerOf(logs, drift.result),
         baseline_file |-> drift.baseline_file]

-----------------------------------------------------------------------------
(* The pipeline, one caller: every operation runs to its end.              *)

DriftThresholds == {Rat(-1, 10), Rat(15, 100), Rat(1, 2)}
ConfidenceThresholds == {Rat(70, 100)}
MinSamples == 1..MaxLogs

NoCall == [op |-> "none"]
NoThreads == <<>>

Configured ==
    /\ drift_threshold \in DriftThresholds
    /\ confidence_threshold \in ConfidenceThresholds
    /\ min_samples_for_retraining \in MinSamples

\* the default configuration of the constructors
DefaultConfig ==
    /\ drift_threshold = Rat(15, 100)
    /\ confidence_threshold = Rat(70, 100)
    /\ min_samples_for_retraining = MaxLogs

Init ==
    /\ log_file = NoFile
    /\ baseline_file = NoFile
    /\ drift_report_file = NoFile
    /\ trigger_file = NoFile
    /\ now = 0
    /\ Configured
    /\ call = NoCall
    /\ threads = NoThreads

config == <<drift_threshold, min_samples_for_retraining, confidence_threshold>>

\* the clock advances between calls
Tick ==
    /\ now < MaxClock
    /\ now' = now + 1
    /\ UNCHANGED <<log_file, baseline_file, drift_report_file, trigger_file,
                   config, call, threads>>

\* a set_baseline that keeps a baseline already there
SetBaselineOnce(logs) ==
    /\ baseline_file' = IF baseline_file.exists THEN baseline_file
                        ELSE File(BaselineData(logs))
    /\ call' = [op |-> "set_baseline", logs |-> logs]
    /\ UNCHANGED <<log_file, drift_report_file, trigger_file, now, config, threads>>

SetBaseline(logs) ==
    /\ baseline_file' = File(BaselineData(logs))
    /\ call' = [op |-> "set_baseline", logs |-> logs]
    /\ UNCHANGED <<log_file, drift_report_file, trigger_file, now, config, threads>>

DetectDrift(logs) ==
    LET baseline == get_baseline
        out == detect_drift(baseline, logs)
    IN  /\ baseline_file' = out.baseline_file
        /\ call' = [op |-> "detect_drift", logs |-> logs, baseline |-> baseline,
                    result |-> out.result]
        /\ UNCHANGED <<log_file, drift_report_file, trigger_file, now, config, threads>>

EvaluateRetrainingNeed(logs) ==
    LET baseline == get_baseline
        out == evaluate_retraining_need(baseline, logs)
    IN  /\ baseline_file' = out.baseline_file
        /\ call' = [op |-> "evaluate_retraining_need", logs |-> logs,
                    baseline |-> baseline, drift_report |-> out.drift_report,
                    result |-> out.result]
        /\ UNCHANGED <<log_file, drift_report_file, trigger_file, now, config, threads>>

Next ==
    \/ \E logs \in LogLists : SetBaseline(logs)
    \/ \E logs \in LogLists : DetectDrift(logs)
    \/ \E logs \in LogLists : EvaluateRetrainingNeed(logs)

Spec == Init /\ [][Next]_vars

-----------------------------------------------------------------------------
(* Claims about the engines, checked under Spec.                           *)

Evaluated == call.op = "evaluate_retraining_need" /\ call.result # ValueError
Detected == call.op = "detect_drift" /\ call.result # ValueError

\* average_confidence < confidence_threshold, from the records themselves
LowAverage(logs) ==
    /\ logs # <<>> => ConfidenceSum(logs) * confidence_threshold[2]
                          < confidence_threshold[1] * 100 * Len(logs)
    /\ logs = <<>> => 0 < confidence_threshold[1]

\* C1: evaluate_retraining_need returns triggered == min_samples_met AND
\* (confidence_threshold_met OR drift_threshold_met), with min_samples_met ==
\* (len(logs) >= min_samples_for_retraining), confidence_threshold_met ==
\* (average_confidence < confidence_threshold) and drift_threshold_met == the
\* drift verdict's drift_detected; below min_samples it is never triggered.
C1_TriggeredIsGatedByVolume ==
    Evaluated =>
        LET t == call.result
        IN  /\ t.min_samples_met.value = (Len(call.logs) >= min_samples_for_retraining)
            /\ t.confidence_threshold_met.value = LowAverage(call.logs)
            /\ t.drift_threshold_met.value = call.drift_report.drift_detected.value
            /\ t.triggered.value =
                   (t.min_samples_met.value
                    /\ (t.confidence_threshold_met.value \/ t.drift_threshold_met.value))
            /\ Len(call.logs) < min_samples_for_retraining => ~t.triggered.value

\* too few records, low confidence and drift: the volume gate blocks
C1_Witness ==
    /\ Evaluated
    /\ Len(call.logs) < min_samples_for_retraining
    /\ call.result.confidence_threshold_met.value
    /\ call.result.drift_threshold_met.value
    /\ ~call.result.triggered.value

\* the labels of a record list with the share of each
Shares(logs) ==
    [s \in {logs[i].sentiment : i \in DOMAIN logs} |->
        Rat(Cardinality({i \in DOMAIN logs : logs[i].sentiment = s}), Len(logs))]

\* C2: detect_drift without a baseline compares nothing: drift_detected is
\* false, drift_score 0, both distributions empty, one advisory; non-empty
\* records leave a baseline derived from them, empty records leave none.
C2_BootstrapVerdict ==
    (call.op = "detect_drift" /\ call.baseline = None) =>
        /\ call.result # ValueError
        /\ call.result.drift_detected.value = FALSE
        /\ call.result.drift_score.value = Zero
        /\ call.result.baseline_distribution = <<>>
        /\ call.result.current_distribution = <<>>
        /\ Len(call.result.recommendations) = 1
        /\ call.logs # <<>> =>
               /\ get_baseline # None
               /\ get_baseline["distribution"] = Shares(call.logs)
               /\ get_baseline["total_samples"] = Len(call.logs)
        /\ call.logs = <<>> => get_baseline = None

C2_Witness ==
    /\ call.op = "detect_drift"
    /\ call.baseline = None
    /\ call.logs # <<>>
    /\ get_baseline # None

\* C3: a baseline with all mass on one label against records that all carry
\* another label gives drift_score 1.0 and, for a threshold below 1.0,
\* drift_detected.
C3_DisjointLabelsScoreOne ==
    (/\ call.op = "detect_drift"
     /\ call.baseline # None
     /\ call.logs # <<>>
     /\ \E a, b \in Labels :
            /\ a # b
            /\ call.baseline["distribution"] = (a :> One)
            /\ \A i \in DOMAIN call.logs : call.logs[i].sentiment = b)
    => /\ call.result # ValueError
       /\ call.result.drift_score.value = One
       /\ RLess(drift_threshold, One) => call.result.drift_detected.value

\* C9: the reason is the ' | '-join, in the order (insufficient samples, low
\* confidence, drift detected), of exactly the entries whose condition holds,
\* and the sentinel iff none holds.
C9_ReasonListsAdverseGates ==
    Evaluated =>
        LET t == call.result
            few == Len(call.logs) < min_samples_for_retraining
            low == t.confidence_threshold_met.value
            drift == t.drift_threshold_met.value
            entries ==
                (IF few THEN <<"Campioni insufficienti">> ELSE <<>>)
                \o (IF low THEN <<"Confidenza media bassa">> ELSE <<>>)
                \o (IF drift THEN <<"Drift rilevato: score">> ELSE <<>>)
        IN  /\ (t.reason = NoRetrainingNeeded) = (entries = <<>>)
            /\ entries # <<>> =>
                   /\ Len(t.reason) = 2 * Len(entries) - 1
                   /\ \A i \in DOMAIN entries : t.reason[2 * i - 1][1] = entries[i]
                   /\ \A i \in 1..(Len(entries) - 1) : t.reason[2 * i] = Separator
            /\ few => t.reason[1] = InsufficientSamples(call.logs)
            /\ t.triggered.value => t.reason # NoRetrainingNeeded

\* all three entries at once
C9_Witness ==
    /\ Evaluated
    /\ Len(call.result.reason) = 5
    /\ ~call.result.triggered.value

\* a verdict of detect_drift: the report of the last call, or the report the
\* last evaluate_retraining_need obtained
Verdicts ==
    (IF Detected THEN {call.result} ELSE {})
    \cup (IF call.op = "evaluate_retraining_need" /\ call.drift_report # ValueError
          THEN {call.drift_report} ELSE {})

ScoreInRange(r) ==
    /\ ~RLess(r.drift_score.value, Zero)
    /\ ~RLess(One, r.drift_score.value)

\* C10 as claimed: every verdict of detect_drift, on either path, has
\* 0 <= drift_score <= 1, the configured threshold, and drift_detected ==
\* (drift_score > drift_threshold), strictly.
C10_DetectedIffScoreAboveThreshold ==
    \A r \in Verdicts :
        /\ ScoreInRange(r)
        /\ r.drift_threshold = drift_threshold
        /\ r.drift_detected.value = RLess(r.drift_threshold, r.drift_score.value)

\* C10 as amended: the equivalence holds on the comparison path; the
\* bootstrap verdict is always (not detected, score 0), which is the
\* equivalence exactly when the configured threshold is not negative.
C10_DetectedIffScoreAboveThresholdCompared ==
    \A r \in Verdicts :
        /\ ScoreInRange(r)
        /\ r.drift_threshold = drift_threshold
        /\ call.baseline # None =>
               r.drift_detected.value = RLess(r.drift_threshold, r.drift_score.value)
        /\ call.baseline = None =>
               /\ ~r.drift_detected.value
               /\ r.drift_score.value = Zero
               /\ (r.drift_detected.value = RLess(r.drift_threshold, r.drift_score.value))
                      = ~RLess(drift_threshold, Zero)

\* a score equal to the threshold is not drift
C10_Witness ==
    /\ Detected
    /\ call.baseline # None
    /\ call.result.drift_score.value = drift_threshold
    /\ ~call.result.drift_detected.value

\* C11: after a baseline taken from a non-empty record list, detect_drift on
\* records with the same label distribution gives drift_score 0, and no drift
\* for every threshold that is not negative.
C11_SameDistributionScoresZero ==
    (/\ call.op = "detect_drift"
     /\ call.baseline # None
     /\ call.logs # <<>>
     /\ call.baseline["distribution"] = Shares(call.logs))
    => /\ call.result # ValueError
       /\ call.result.drift_score.value = Zero
       /\ ~RLess(drift_threshold, Zero) => ~call.result.drift_detected.value

\* two labels in equal shares, against a baseline of the same shares
C11_Witness ==
    /\ Detected
    /\ call.baseline # None
    /\ Len(call.logs) = 2
    /\ call.logs[1].sentiment # call.logs[2].sentiment
    /\ call.baseline["distribution"] = Shares(call.logs)
    /\ call.result.drift_score.value = Zero

\* the snapshot a baseline write leaves for `logs`
Snapshot(logs) ==
    [timestamp |-> now,
     distribution |-> Shares(logs),
     total_samples |-> Len(logs),
     average_confidence |->
         IF logs = <<>> THEN Zero ELSE Rat(ConfidenceSum(logs), 100 * Len(logs))]

\* C12: there is one baseline at most, the last one written: get_baseline is
\* None until the first write, and after a write (a set_baseline, or the
\* bootstrap of an evaluation that found no baseline and has records) it is
\* exactly the snapshot of that write; set_baseline of no records writes the
\* snapshot with an empty distribution and 0 samples.
C12_BaselineIsLatestWrite ==
    /\ get_baseline = None
    /\ [][/\ call'.op = "set_baseline" => get_baseline' = Snapshot(call'.logs)
          /\ call'.op \in {"detect_drift", "evaluate_retraining_need"} =>
                 get_baseline' = (IF get_baseline = None /\ call'.logs # <<>>
                                  THEN Snapshot(call'.logs) ELSE get_baseline)]_vars

\* a baseline of no records is there to be read
C12_Witness ==
    /\ call.op = "set_baseline"
    /\ call.logs = <<>>
    /\ get_baseline # None
    /\ get_baseline["distribution"] = <<>>
    /\ get_baseline["total_samples"] = 0

\* C18: on the comparison path the advisories are, in this order, the drift
\* advisory iff drift_detected, the confidence-change advisory iff
\* |confidence_change| > 0.05 and the retraining advisory iff
\* confidence_change < -0.1; the last never comes without the second, and
\* the list is empty iff there is no drift and |confidence_change| <= 0.05.
C18_AdvisoriesInFixedOrder ==
    (Detected /\ call.baseline # None) =>
        LET r == call.result
            average == IF call.logs = <<>> THEN Zero
                       ELSE Rat(ConfidenceSum(call.logs), 100 * Len(call.logs))
            change == RSub(average, call.baseline["average_confidence"])
            drift == r.drift_detected.value
            moved == 5 * change[2] < 100 * Abs(change[1])
            fell == 10 * change[1] < -change[2]
            kinds ==
                (IF drift
                 THEN <<"DRIFT RILEVATO! Score",
                        "La distribuzione dei sentiment e' cambiata significativamente">>
                 ELSE <<>>)
                \o (IF moved THEN <<"La confidenza media e'">> ELSE <<>>)
                \o (IF fell
                    THEN <<"CONSIDERARE IL RETRAINING: La confidenza e' diminuita significativamente">>
                    ELSE <<>>)
        IN  /\ r.average_confidence_change = change
            /\ Len(r.recommendations) = Len(kinds)
            /\ \A i \in DOMAIN kinds : r.recommendations[i][1] = kinds[i]
            /\ fell => moved
            /\ (r.recommendations = <<>>) = (~drift /\ ~moved)

\* drift, and a confidence that rose: the first two advisories without the
\* third
C18_Witness ==
    /\ Detected
    /\ call.baseline # None
    /\ call.result.drift_detected.value
    /\ RLess(Zero, call.result.average_confidence_change)
    /\ Len(call.result.recommendations) = 3

\* the report of the last evaluation
LastReport == IF call.op = "detect_drift" THEN call.result ELSE call.drift_report

\* C20: a baseline set from no records is a baseline: get_baseline is not
\* None, and every later evaluation of non-empty records takes the
\* comparison path against the empty distribution, scores above 0 and leaves
\* the baseline as it was.
C20_EmptyBaselineIsABaseline ==
    /\ (call.op = "set_baseline" /\ call.logs = <<>>) => get_baseline # None
    /\ (/\ call.op \in {"detect_drift", "evaluate_retraining_need"}
        /\ call.baseline # None
        /\ call.baseline["total_samples"] = 0
        /\ call.logs # <<>>)
       => /\ LastReport # ValueError
          /\ LastReport.baseline_distribution = <<>>
          /\ LastReport.current_distribution = Shares(call.logs)
          /\ RLess(Zero, LastReport.drift_score.value)
          /\ get_baseline = call.baseline

C20_Witness ==
    /\ call.op = "evaluate_retraining_need"
    /\ call.baseline # None
    /\ call.baseline["total_samples"] = 0
    /\ Len(call.logs) = 2
    /\ call.logs[1].sentiment # call.logs[2].sentiment
    /\ call.drift_report.drift_score.value = Rat(1, 2)

-----------------------------------------------------------------------------
(* PredictionLogger: the prediction log, one JSON object per line.         *)

\* with open(file, 'a') as f: f.write(line + '\n')
OverwriteLine(file, line) == File(<<line>>)
AppendLine(file, line) ==
    IF file.exists THEN File(Append(file.content, line)) ELSE File(<<line>>)

\* if file.exists(): file.unlink()
Unlink(file) == NoFile

\* the lines a reader decodes: for line in f: if line.strip()
ReadLines(file) ==
    IF ~file.exists THEN <<>>
    ELSE SelectSeq(file.content, LAMBDA line : line # BlankLine)

\* PredictionLog(**data)
PredictionLogOf(data) ==
    PredictionLog(data["timestamp"], data["text"], data["sentiment"],
                  data["confidence"], data["scores"])

\* json.JSONDecodeError: its lineno counts within the document handed to
\* json.loads, the one line with its newline, whatever the place of the line
\* in the file; for a line cut after a key the scanner reads past the newline
\* and reports line 2
JSONDecodeError == [type |-> "JSONDecodeError", lineno |-> 2]

\* a line json.loads can parse: every key of the object has its value (the
\* malformed lines of the model are lines cut after a key)
WellFormed(line) == \A i \in DOMAIN line : Len(line[i]) = 2

\* PredictionLog(**json.loads(line)): the record, the JSONDecodeError of
\* json.loads, or the TypeError of a missing or unexpected keyword; the
\* dataclass checks nothing else
Decode(line) ==
    IF ~WellFormed(line) THEN JSONDecodeError
    ELSE LET data == JsonLoads(line)
         IN  IF DOMAIN data # Range(PredictionLogKeys) THEN TypeError
             ELSE PredictionLogOf(data)

\* what load_logs raises: the exception of the first line that has one
LoadError(file) ==
    LET lines == ReadLines(file)
        failing == {i \in DOMAIN lines : Decode(lines[i]) \in {JSONDecodeError, TypeError}}
    IN  IF failing = {} THEN None
        ELSE Decode(lines[CHOOSE i \in failing : \A j \in failing : i <= j])

\* what load_logs returns when no line raises
load_logs ==
    LET lines == ReadLines(log_file)
    IN  [i \in DOMAIN lines |-> Decode(lines[i])]

get_logs_count == Len(load_logs)

\* the score maps handed to log_prediction: those of the model, with a tie,
\* and the empty map, on which max() raises ValueError
ScoreInputs ==
    ScoreMaps \cup {<< <<"Negativo", 50>>, <<"Neutro", 0>>, <<"Positivo", 50>> >>, <<>>}

LogPrediction(text, sentiment_scores) ==
    /\ Len(ReadLines(log_file)) < MaxStore
    /\ IF sentiment_scores = <<>>
       THEN /\ call' = [op |-> "log_prediction", text |-> text,
                        scores |-> sentiment_scores, result |-> ValueError]
            /\ UNCHANGED log_file
       ELSE LET log_entry == LogOf(now, text, sentiment_scores)
            IN  /\ log_file' =
                       AppendLine(log_file, JsonDumps(log_entry, PredictionLogKeys))
                /\ call' = [op |-> "log_prediction", text |-> text,
                            scores |-> sentiment_scores, result |-> log_entry]
    /\ UNCHANGED <<baseline_file, drift_report_file, trigger_file, now, config, threads>>

LoadLogs ==
    /\ call' = IF LoadError(log_file) = None
               THEN [op |-> "load_logs", raised |-> None, result |-> load_logs]
               ELSE [op |-> "load_logs", raised |-> LoadError(log_file)]
    /\ UNCHANGED <<log_file, baseline_file, drift_report_file, trigger_file, now,
                   config, threads>>

ClearLogs ==
    /\ log_file' = IF log_file.exists THEN Unlink(log_file) ELSE log_file
    /\ call' = [op |-> "clear_logs"]
    /\ UNCHANGED <<baseline_file, drift_report_file, trigger_file, now, config, threads>>

NextStore ==
    \/ Tick
    \/ \E text \in Texts, scores \in ScoreInputs : LogPrediction(text, scores)
    \/ LoadLogs
    \/ ClearLogs

SpecStore == Init /\ [][NextStore]_vars

\* C5: load_logs returns the records appended since the last clear_logs, in
\* append order and without deduplication: a log_prediction that returns a
\* record adds it at the end, clear_logs leaves nothing, anything else
\* changes nothing, and load_logs returns this list.
C5_LoadReturnsAppendedSinceClear ==
    /\ load_logs = <<>>
    /\ [][/\ (\E text \in Texts, scores \in ScoreInputs :
                  LogPrediction(text, scores)) =>
                 load_logs' = (IF call'.result = ValueError THEN load_logs
                               ELSE Append(load_logs, call'.result))
          /\ ClearLogs => load_logs' = <<>>
          /\ LoadLogs => call'.result = load_logs /\ load_logs' = load_logs
          /\ Tick => load_logs' = load_logs]_vars

\* the same record appended twice is loaded twice
C5_Witness ==
    /\ call.op = "load_logs"
    /\ Len(call.result) = 2
    /\ call.result[1] = call.result[2]

\* a record whose sentiment is a label of greatest score in its scores and
\* whose confidence is that score
KeepsInvariant(r) ==
    /\ \E j \in DOMAIN r.scores :
           r.scores[j][1] = r.sentiment /\ r.scores[j][2] = r.confidence
    /\ \A j \in DOMAIN r.scores : r.scores[j][2] <= r.confidence

\* C15: the record log_prediction returns, and every record of the store
\* after any log_prediction and clear_logs calls, has for sentiment a label of
\* greatest score and for confidence that score; a call with an empty score
\* map raises and leaves the store as it was.
C15_StoredRecordsKeepInvariant ==
    /\ [](/\ \A i \in DOMAIN load_logs : KeepsInvariant(load_logs[i])
          /\ (call.op = "log_prediction" /\ call.scores # <<>>) =>
                 /\ call.result # ValueError
                 /\ call.result.scores = call.scores
                 /\ KeepsInvariant(call.result))
    /\ [][(call'.op = "log_prediction" /\ call'.scores = <<>>) =>
              /\ call'.result = ValueError
              /\ log_file' = log_file]_vars

\* a tie in the store, and a call with no scores refused
C15_Witness ==
    /\ call.op = "log_prediction"
    /\ call.scores = <<>>
    /\ call.result = ValueError
    /\ Len(load_logs) = 1
    /\ \E i \in DOMAIN load_logs :
           Cardinality({j \in DOMAIN load_logs[i].scores :
                           load_logs[i].scores[j][2] = load_logs[i].confidence}) = 2

-----------------------------------------------------------------------------
(* load_logs on a prediction log that something else than log_prediction   *)
(* has written to: a damaged disk, an editor, another program.             *)

\* a record as log_prediction wrote it, with its confidence changed
TamperedLine ==
    JsonDumps([LogOf(0, "text", ConfidentPositivo) EXCEPT !.confidence = 10],
              PredictionLogKeys)

\* a line cut in the middle of its second key
TruncatedLine == << <<"timestamp", 0>>, <<"text">> >>

\* a JSON object without its "scores"
MissingKeyLine ==
    SubSeq(JsonDumps(LogOf(0, "text", ConfidentPositivo), PredictionLogKeys), 1, 4)

StoredLines ==
    {JsonDumps(LogOf(0, "text", s), PredictionLogKeys) : s \in ScoreMaps}
    \cup {BlankLine, TamperedLine, TruncatedLine, MissingKeyLine}

InitDecode ==
    /\ log_file \in {File(lines) : lines \in SeqsUpTo(StoredLines, MaxStore)}
    /\ baseline_file = NoFile
    /\ drift_report_file = NoFile
    /\ trigger_file = NoFile
    /\ now = 0
    /\ DefaultConfig
    /\ call = NoCall
    /\ threads = NoThreads

NextDecode == LoadLogs

SpecDecode == InitDecode /\ [][NextDecode]_vars

\* a stored line that decodes to a record keeping the record invariant
SoundLine(line) ==
    /\ WellFormed(line)
    /\ {line[i][1] : i \in DOMAIN line} = Range(PredictionLogKeys)
    /\ KeepsInvariant(PredictionLogOf(JsonLoads(line)))

\* C14: a stored line that is malformed or breaks the record invariant makes
\* load_logs raise a decode error that tells the position of the line;
\* load_logs returns only when every stored line is sound, and then all of
\* them.
C14_BadLineIsADecodeError ==
    call.op = "load_logs" =>
        LET lines == ReadLines(log_file)
            bad == {i \in DOMAIN lines : ~SoundLine(lines[i])}
            first == CHOOSE i \in bad : \A j \in bad : i <= j
        IN  IF bad = {}
            THEN call.raised = None /\ Len(call.result) = Len(lines)
            ELSE /\ call.raised # None
                 /\ "lineno" \in DOMAIN call.raised
                 /\ call.raised.lineno = first

-----------------------------------------------------------------------------
(* MetricsTracker.calculate_metrics on the record lists of a caller.       *)

MaxMetricsLogs == 3   \* longest record list handed to calculate_metrics

MetricsLogs == {LogOf(t, "text", s) : t \in 0..MaxClock, s \in ScoreMaps}
MetricsLogLists == SeqsUpTo(MetricsLogs, MaxMetricsLogs)

\* a caller about to call calculate_metrics(logs)
InitMetrics ==
    /\ log_file = NoFile
    /\ baseline_file = NoFile
    /\ drift_report_file = NoFile
    /\ trigger_file = NoFile
    /\ now = MaxClock
    /\ DefaultConfig
    /\ \E logs \in MetricsLogLists : call = [op |-> "call calculate_metrics", logs |-> logs]
    /\ threads = NoThreads

CalculateMetrics ==
    /\ call.op = "call calculate_metrics"
    /\ call' = [op |-> "calculate_metrics", logs |-> call.logs,
                result |-> calculate_metrics(call.logs)]
    /\ UNCHANGED <<log_file, baseline_file, drift_report_file, trigger_file, now,
                   config, threads>>

NextMetrics == CalculateMetrics

SpecMetrics == InitMetrics /\ [][NextMetrics]_vars

\* C16: total_predictions is len(logs) and the sum of the counts of
\* sentiment_distribution; sentiment_distribution, sentiment_percentages and
\* confidence_by_sentiment have for keys the labels of the records; the
\* percentages of a non-empty list sum to 100; for the empty list the total
\* is 0, the three maps are empty and average_confidence is 0.
C16_MetricsAgreeWithRecords ==
    call.op = "calculate_metrics" =>
        LET m == call.result
            logs == call.logs
            labels == {logs[i].sentiment : i \in DOMAIN logs}
            keys == SortedKeys(labels)
            pct == m.sentiment_percentages
            D == LcmSet({pct[s][2] : s \in DOMAIN pct})
        IN  /\ m.total_predictions = Len(logs)
            /\ DOMAIN m.sentiment_distribution = labels
            /\ DOMAIN m.sentiment_percentages = labels
            /\ DOMAIN m.confidence_by_sentiment = labels
            /\ SumSeq([i \in DOMAIN keys |-> m.sentiment_distribution[keys[i]]])
                   = m.total_predictions
            /\ logs # <<>> =>
                   SumSeq([i \in DOMAIN keys |->
                              pct[keys[i]][1] * (D \div pct[keys[i]][2])]) = 100 * D
            /\ logs = <<>> =>
                   /\ m.total_predictions = 0
                   /\ m.sentiment_distribution = <<>>
                   /\ m.sentiment_percentages = <<>>
                   /\ m.confidence_by_sentiment = <<>>
                   /\ m.average_confidence = Zero

\* three records of three labels: thirds that sum to 100
C16_Witness ==
    /\ call.op = "calculate_metrics"
    /\ Len(call.logs) = 3
    /\ \A s \in Labels : s \in DOMAIN call.result.sentiment_percentages
    /\ call.result.sentiment_percentages["Neutro"] = Rat(100, 3)

-----------------------------------------------------------------------------
(* MetricsTracker.get_metrics_over_time.  The clock is read in hours.      *)

MaxWindowLogs == 3    \* longest record list handed to get_metrics_over_time
MaxTime == 3          \* latest timestamp of such a record
MaxWindowHours == 2   \* longest window

\* sorted(logs, key=lambda x: x.timestamp): stable
RECURSIVE InsertByTimestamp(_, _)
InsertByTimestamp(sorted, log) ==
    IF sorted = <<>> THEN <<log>>
    ELSE IF Head(sorted).timestamp <= log.timestamp
         THEN <<Head(sorted)>> \o InsertByTimestamp(Tail(sorted), log)
         ELSE <<log>> \o sorted

RECURSIVE SortedByTimestamp(_)
SortedByTimestamp(logs) ==
    IF logs = <<>> THEN <<>>
    ELSE InsertByTimestamp(SortedByTimestamp(SubSeq(logs, 1, Len(logs) - 1)),
                           logs[Len(logs)])

\* if log_time > window_end
PastWindow(log_time, window_end) == log_time > window_end

\* an assignment in the place of the append
EmitReplacing(metrics_over_time, start_time, current_window) ==
    IF current_window # <<>>
    THEN <<[start |-> start_time, window |-> current_window]>>
    ELSE metrics_over_time

\* if current_window: metrics_over_time.append((start_time, current_window))
Emit(metrics_over_time, start_time, current_window) ==
    IF current_window # <<>>
    THEN Append(metrics_over_time, [start |-> start_time, window |-> current_window])
    ELSE metrics_over_time

\* the loop of lines 158-177 over the sorted records still to be read
RECURSIVE WindowLoop(_, _, _, _, _, _)
WindowLoop(rest, start_time, window_end, current_window, metrics_over_time, hours) ==
    IF rest = <<>> THEN Emit(metrics_over_time, start_time, current_window)
    ELSE IF PastWindow(Head(rest).timestamp, window_end)
         THEN WindowLoop(Tail(rest), window_end, window_end + hours, <<Head(rest)>>,
                         Emit(metrics_over_time, start_time, current_window), hours)
         ELSE WindowLoop(Tail(rest), start_time, window_end,
                         Append(current_window, Head(rest)), metrics_over_time, hours)

\* the windows of get_metrics_over_time: each start with the records of its
\* current_window
Windows(logs, window_hours) ==
    IF logs = <<>> THEN <<>>
    ELSE LET sorted_logs == SortedByTimestamp(logs)
             start_time == sorted_logs[1].timestamp
         IN  WindowLoop(sorted_logs, start_time, start_time + window_hours, <<>>, <<>>,
                        window_hours)

get_metrics_over_time(logs, window_hours) ==
    LET windows == Windows(logs, window_hours)
    IN  [k \in DOMAIN windows |->
            <<windows[k].start, calculate_metrics(windows[k].window)>>]

WindowLogs == {LogOf(t, "text", s) : t \in 0..MaxTime, s \in EngineScoreMaps}
WindowLogLists == SeqsUpTo(WindowLogs, MaxWindowLogs)

\* a caller about to call get_metrics_over_time(logs, window_hours)
InitWindows ==
    /\ log_file = NoFile
    /\ baseline_file = NoFile
    /\ drift_report_file = NoFile
    /\ trigger_file = NoFile
    /\ now = 0
    /\ DefaultConfig
    /\ \E logs \in WindowLogLists, window_hours \in 1..MaxWindowHours :
           call = [op |-> "call get_metrics_over_time", logs |-> logs,
                   window_hours |-> window_hours]
    /\ threads = NoThreads

GetMetricsOverTime ==
    /\ call.op = "call get_metrics_over_time"
    /\ call' = [op |-> "get_metrics_over_time", logs |-> call.logs,
                window_hours |-> call.window_hours,
                windows |-> Windows(call.logs, call.window_hours),
                result |-> get_metrics_over_time(call.logs, call.window_hours)]
    /\ UNCHANGED <<log_file, baseline_file, drift_report_file, trigger_file, now,
                   config, threads>>

NextWindows == GetMetricsOverTime

SpecWindows == InitWindows /\ [][NextWindows]_vars

\* C7: every record is counted in the window whose half-open interval
\* [start, start + duration) contains its timestamp.
C7_RecordInHalfOpenWindow ==
    call.op = "get_metrics_over_time" =>
        \A k \in DOMAIN call.windows :
            /\ Len(call.windows[k].window) = call.result[k][2].total_predictions
            /\ \A i \in DOMAIN call.windows[k].window :
                   LET t == call.windows[k].window[i].timestamp
                   IN  /\ call.windows[k].start <= t
                       /\ t < call.windows[k].start + call.window_hours


\* C13: the summaries of a non-empty record list partition it: every record
\* is counted in exactly one summary, no summary counts 0 records, the window
\* starts increase strictly, and the last, partial window (the one of the
\* latest record) is emitted; no records, no summaries.
C13_WindowsPartitionRecords ==
    call.op = "get_metrics_over_time" =>
        LET result == call.result
            counted(log) ==
                SumSeq([k \in DOMAIN call.windows |->
                           Cardinality({i \in DOMAIN call.windows[k].window :
                                           call.windows[k].window[i] = log})])
            latest == CHOOSE i \in DOMAIN call.logs :
                          \A j \in DOMAIN call.logs :
                              call.logs[j].timestamp <= call.logs[i].timestamp
        IN  /\ call.logs = <<>> => result = <<>>
            /\ call.logs # <<>> =>
                   /\ SumSeq([k \in DOMAIN result |-> result[k][2].total_predictions])
                          = Len(call.logs)
                   /\ \A k \in DOMAIN result :
                          /\ result[k][2].total_predictions > 0
                          /\ result[k][2].total_predictions = Len(call.windows[k].window)
                          /\ result[k][1] = call.windows[k].start
                   /\ \A log \in Range(call.logs) :
                          counted(log) =
                              Cardinality({i \in DOMAIN call.logs : call.logs[i] = log})
                   /\ \A k \in 1..(Len(result) - 1) : result[k][1] < result[k + 1][1]
                   /\ result # <<>>
                   /\ \E i \in DOMAIN call.windows[Len(result)].window :
                          call.windows[Len(result)].window[i].timestamp
                              = call.logs[latest].timestamp

\* three records handed over out of order, in three windows
C13_Witness ==
    /\ call.op = "get_metrics_over_time"
    /\ Len(call.logs) = 3
    /\ call.logs[2].timestamp < call.logs[1].timestamp
    /\ call.window_hours = 1
    /\ Len(call.result) = 3
    /\ call.logs[3].timestamp = 3

-----------------------------------------------------------------------------
(* Two callers of one DriftDetector at once.  The detector takes no lock:  *)
(* a caller can be suspended between the file read of get_baseline (line   *)
(* 133) and the file write of set_baseline (line 138, through lines 80-81).*)

\* the evaluator calls detect_drift; the other writer is an operator
\* calling set_baseline or a second evaluator calling detect_drift
Threads == {"evaluator", "writer"}
ThreadOps(t) ==
    IF t = "evaluator" THEN {"detect_drift"} ELSE {"set_baseline", "detect_drift"}

InitRace ==
    /\ log_file = NoFile
    /\ baseline_file = NoFile
    /\ drift_report_file = NoFile
    /\ trigger_file = NoFile
    /\ now = 0
    /\ DefaultConfig
    /\ call = NoCall
    /\ \E ops \in [Threads -> {"set_baseline", "detect_drift"}],
          logs \in [Threads -> LogLists] :
           /\ \A t \in Threads : ops[t] \in ThreadOps(t)
           /\ threads = [t \in Threads |->
                            [pc |-> "called", op |-> ops[t], logs |-> logs[t]]]

files == <<log_file, drift_report_file, trigger_file>>

\* baseline = self.get_baseline()
ReadBaseline(t) ==
    /\ threads[t].pc = "called"
    /\ threads[t].op = "detect_drift"
    /\ threads' = [threads EXCEPT ![t] =
                      [pc |-> "read", op |-> "detect_drift", logs |-> threads[t].logs,
                       baseline |-> get_baseline]]
    /\ UNCHANGED <<baseline_file, files, now, config, call>>

\* the rest of detect_drift, from the baseline it read
FinishDetectDrift(t) ==
    /\ threads[t].pc = "read"
    /\ LET out == detect_drift(threads[t].baseline, threads[t].logs)
       IN  /\ baseline_file' = out.baseline_file
           /\ threads' = [threads EXCEPT ![t] =
                             [pc |-> "returned", op |-> "detect_drift",
                              logs |-> threads[t].logs,
                              baseline |-> threads[t].baseline,
                              result |-> out.result]]
    /\ UNCHANGED <<files, now, config, call>>

\* set_baseline(logs) of the operator
WriteBaseline(t) ==
    /\ threads[t].pc = "called"
    /\ threads[t].op = "set_baseline"
    /\ baseline_file' = File(BaselineData(threads[t].logs))
    /\ threads' = [threads EXCEPT ![t] =
                      [pc |-> "returned", op |-> "set_baseline",
                       logs |-> threads[t].logs]]
    /\ UNCHANGED <<files, now, config, call>>

NextRace ==
    \E t \in Threads :
        \/ ReadBaseline(t)
        \/ FinishDetectDrift(t)
        \/ WriteBaseline(t)

SpecRace == InitRace /\ [][NextRace]_vars

\* t is about to make the bootstrap write: it read "no baseline" and has records
InBootstrapRegion(t) ==
    /\ threads[t].pc = "read"
    /\ threads[t].baseline = None
    /\ threads[t].logs # <<>>

\* C4: the bootstrap path's read of the baseline and its write are one
\* atomic region: the bootstrap write never replaces a baseline that another
\* writer wrote after this detect_drift read "no baseline".
C4_BootstrapWriteOverwritesNothing ==
    [][\A t \in Threads :
           (InBootstrapRegion(t) /\ FinishDetectDrift(t)) => ~baseline_file.exists]_vars

-----------------------------------------------------------------------------
(* The histories: drift_reports.jsonl and retraining_triggers.jsonl.       *)

\* _to_serializable: a numpy scalar becomes the Python value of o.item()
ToSerializable(x) ==
    IF x.type = "numpy.bool_" THEN PyBool(x.value)
    ELSE IF x.type = "numpy.float64" THEN PyFloat(x.value)
    ELSE x

\* a json.dumps that took every flag
JsonSerializableAny(x) == TRUE

\* json.dumps knows bool and float (numpy.float64 is a float); a numpy.bool_
\* is "not JSON serializable"
JsonSerializable(x) == x.type # "numpy.bool_"

\* the line save_drift_report writes
DriftReportLine(report) ==
    JsonDumps([report EXCEPT
                  !.drift_detected = ToSerializable(report.drift_detected).value,
                  !.drift_score = ToSerializable(report.drift_score).value],
              DriftReportKeys)

\* DriftReport(**data)
DriftReportOf(data) ==
    DriftReport(data["timestamp"], PyBool(data["drift_detected"]),
                PyFloat(data["drift_score"]), data["drift_threshold"],
                data["baseline_distribution"], data["current_distribution"],
                data["average_confidence_change"], data["recommendations"])

get_drift_history ==
    LET lines == ReadLines(drift_report_file)
    IN  [i \in DOMAIN lines |-> DriftReportOf(JsonLoads(lines[i]))]

TriggerFlags == {"triggered", "confidence_threshold_met", "drift_threshold_met",
                 "min_samples_met"}

\* json.dumps(trigger.to_dict()): the line, or the TypeError of a numpy.bool_
TriggerLine(trigger) ==
    IF \E k \in TriggerFlags : ~JsonSerializable(trigger[k]) THEN TypeError
    ELSE JsonDumps([k \in DOMAIN trigger |->
                       IF k \in TriggerFlags THEN trigger[k].value ELSE trigger[k]],
                   RetrainingTriggerKeys)

\* RetrainingTrigger(**data)
RetrainingTriggerOf(data) ==
    RetrainingTrigger(data["timestamp"], PyBool(data["triggered"]), data["reason"],
                      PyBool(data["confidence_threshold_met"]),
                      PyBool(data["drift_threshold_met"]),
                      PyBool(data["min_samples_met"]), data["recommended_action"])

get_trigger_history ==
    LET lines == ReadLines(trigger_file)
    IN  [i \in DOMAIN lines |-> RetrainingTriggerOf(JsonLoads(lines[i]))]

get_last_triggered ==
    LET triggered == SelectSeq(get_trigger_history, LAMBDA t : t.triggered.value)
    IN  IF triggered # <<>> THEN triggered[Len(triggered)] ELSE None

\* Counter(reasons).most_common(5): the distinct reasons by falling count,
\* equal counts in the order of their first occurrence
RECURSIVE Distinct(_)
Distinct(items) ==
    IF items = <<>> THEN <<>>
    ELSE LET before == Distinct(SubSeq(items, 1, Len(items) - 1))
             x == items[Len(items)]
         IN  IF \E i \in DOMAIN before : before[i] = x THEN before
             ELSE Append(before, x)

Occurrences(items, x) == Cardinality({i \in DOMAIN items : items[i] = x})

RECURSIVE ByFallingCount(_, _)
ByFallingCount(keys, items) ==
    IF keys = <<>> THEN <<>>
    ELSE LET top == CHOOSE i \in DOMAIN keys :
                        \A j \in DOMAIN keys :
                            \/ Occurrences(items, keys[j]) < Occurrences(items, keys[i])
                            \/ /\ Occurrences(items, keys[j]) = Occurrences(items, keys[i])
                               /\ i <= j
             rest == [j \in 1..(Len(keys) - 1) |-> IF j < top THEN keys[j] ELSE keys[j + 1]]
         IN  << <<keys[top], Occurrences(items, keys[top])>> >>
             \o ByFallingCount(rest, items)

MostCommon(items, n) ==
    LET ranked == ByFallingCount(Distinct(items), items)
    IN  SubSeq(ranked, 1, IF Len(ranked) < n THEN Len(ranked) ELSE n)

\* the reasons of every verdict, triggered or not
_get_top_reasonsOfAll(triggers) ==
    MostCommon([i \in DOMAIN triggers |-> triggers[i].reason], 5)

_get_top_reasons(triggers) ==
    LET triggered == SelectSeq(triggers, LAMBDA t : t.triggered.value)
        reasons == [i \in DOMAIN triggered |-> triggered[i].reason]
    IN  MostCommon(reasons, 5)

\* an Optional[str] that is a timestamp, to be told from None
Timestamp(t) == [timestamp |-> t]

\* "last_triggered": history[-1].timestamp if history else None
LastTriggeredStatistic(history) ==
    IF history # <<>> THEN Timestamp(history[Len(history)].timestamp) ELSE None

get_retraining_statistics ==
    LET history == get_trigger_history
        triggered_count == Len(SelectSeq(history, LAMBDA t : t.triggered.value))
    IN  IF history = <<>>
        THEN [total_evaluations |-> 0, triggered_count |-> 0, trigger_rate |-> Zero,
              last_triggered |-> None]
        ELSE [total_evaluations |-> Len(history),
              triggered_count |-> triggered_count,
              trigger_rate |-> Rat(triggered_count, Len(history)),
              last_triggered |-> LastTriggeredStatistic(history),
              reasons |-> _get_top_reasons(history)]

\* the verdict the caller holds: what the last evaluation returned
HeldReports == IF Detected THEN {call.result} ELSE {}
HeldTriggers == IF Evaluated THEN {call.result} ELSE {}

SaveDriftReport(report) ==
    /\ Len(ReadLines(drift_report_file)) < MaxHist
    /\ drift_report_file' = AppendLine(drift_report_file, DriftReportLine(report))
    /\ call' = [op |-> "save_drift_report", report |-> report]
    /\ UNCHANGED <<log_file, baseline_file, trigger_file, now, config, threads>>

\* open(trigger_file, 'a') creates the file before json.dumps can raise
SaveTrigger(trigger) ==
    /\ Len(ReadLines(trigger_file)) < MaxHist
    /\ LET line == TriggerLine(trigger)
       IN  IF line = TypeError
           THEN /\ trigger_file' =
                       IF trigger_file.exists THEN trigger_file ELSE File(<<>>)
                /\ call' = [op |-> "save_trigger", trigger |-> trigger,
                            result |-> TypeError]
           ELSE /\ trigger_file' = AppendLine(trigger_file, line)
                /\ call' = [op |-> "save_trigger", trigger |-> trigger,
                            result |-> None]
    /\ UNCHANGED <<log_file, baseline_file, drift_report_file, now, config, threads>>

\* a clear_drift_reports that removes the baseline along with the reports
ClearDriftReportsAndBaseline ==
    /\ drift_report_file' =
           IF drift_report_file.exists THEN Unlink(drift_report_file)
           ELSE drift_report_file
    /\ baseline_file' = IF baseline_file.exists THEN Unlink(baseline_file)
                        ELSE baseline_file
    /\ call' = [op |-> "clear_drift_reports"]
    /\ UNCHANGED <<log_file, trigger_file, now, config, threads>>

ClearDriftReports ==
    /\ drift_report_file' =
           IF drift_report_file.exists THEN Unlink(drift_report_file)
           ELSE drift_report_file
    /\ call' = [op |-> "clear_drift_reports"]
    /\ UNCHANGED <<log_file, baseline_file, trigger_file, now, config, threads>>

ClearTriggers ==
    /\ trigger_file' = IF trigger_file.exists THEN Unlink(trigger_file) ELSE trigger_file
    /\ call' = [op |-> "clear_triggers"]
    /\ UNCHANGED <<log_file, baseline_file, drift_report_file, now, config, threads>>

\* the record lists evaluated while the histories are kept: unsure records,
\* whose verdicts are of every kind (triggered or not, drift or not, on the
\* bootstrap path or on the comparison path)
MaxHistoryLogs == 1
HistoryLogLists == SeqsUpTo({LogOf(0, "text", UnsureNegativo)}, MaxHistoryLogs)

InitHistory ==
    /\ log_file = NoFile
    /\ baseline_file = NoFile
    /\ drift_report_file = NoFile
    /\ trigger_file = NoFile
    /\ now = 0
    /\ drift_threshold = Rat(15, 100)
    /\ confidence_threshold = Rat(70, 100)
    /\ min_samples_for_retraining = MaxHistoryLogs
    /\ call = NoCall
    /\ threads = NoThreads

NextHistory ==
    \/ \E logs \in HistoryLogLists : DetectDrift(logs)
    \/ \E logs \in HistoryLogLists : EvaluateRetrainingNeed(logs)
    \/ \E report \in HeldReports : SaveDriftReport(report)
    \/ \E trigger \in HeldTriggers : SaveTrigger(trigger)
    \/ ClearDriftReports
    \/ ClearTriggers

SpecHistory == InitHistory /\ [][NextHistory]_vars

\* a report as get_drift_history reads it back from the line written for it
DriftReportAsRead(report) == DriftReportOf(JsonLoads(DriftReportLine(report)))

\* a verdict one of whose flags is a numpy.bool_
HasNumpyFlag(trigger) == \E k \in TriggerFlags : trigger[k].type = "numpy.bool_"

-----------------------------------------------------------------------------
(* The statistics of a trigger history.  save_trigger takes whatever       *)
(* verdict its caller kept: the history holds, in the order of saving,     *)
(* verdicts that json.dumps could write.                                   *)

\* the verdict evaluate_retraining_need returned at time t for `logs` when
\* there was no baseline
SavedTrigger(t, logs) == [TriggerOf(logs, BootstrapReport) EXCEPT !.timestamp = t]

SavedTriggerLines ==
    {TriggerLine(SavedTrigger(t, logs)) : t \in 0..MaxClock, logs \in LogLists}

GetRetrainingStatistics ==
    /\ call' = [op |-> "get_retraining_statistics",
                result |-> get_retraining_statistics]
    /\ UNCHANGED <<log_file, baseline_file, drift_report_file, trigger_file, now,
                   config, threads>>

GetLastTriggered ==
    /\ call' = [op |-> "get_last_triggered", result |-> get_last_triggered]
    /\ UNCHANGED <<log_file, baseline_file, drift_report_file, trigger_file, now,
                   config, threads>>

InitStatistics ==
    /\ log_file = NoFile
    /\ baseline_file = NoFile
    /\ drift_report_file = NoFile
    /\ now = MaxClock
    /\ DefaultConfig
    /\ trigger_file \in {NoFile} \cup {File(lines) : lines \in SeqsUpTo(SavedTriggerLines, MaxHist)}
    /\ call = NoCall
    /\ threads = NoThreads

NextStatistics ==
    \/ GetRetrainingStatistics
    \/ GetLastTriggered

SpecStatistics == InitStatistics /\ [][NextStatistics]_vars

\* C8: get_retraining_statistics reports as last_triggered the timestamp of
\* the most recent verdict of the history whose triggered flag is true, and
\* None when no verdict of the history is triggered, whatever follows.
C8_LastTriggeredIsLatestTriggeredVerdict ==
    call.op = "get_retraining_statistics" =>
        LET history == get_trigger_history
            triggered == {i \in DOMAIN history : history[i].triggered.value}
            latest == CHOOSE i \in triggered : \A j \in triggered : j <= i
        IN  call.result.last_triggered =
                (IF triggered = {} THEN None
                 ELSE Timestamp(history[latest].timestamp))

-----------------------------------------------------------------------------
(* The reasons statistic over longer histories.  A reason is compared with *)
(* the others for equality only, so the histories are taken up to the      *)
(* naming of their reasons: the k-th new reason of a history is reason k.   *)

MaxReasonHist == 6   \* most verdicts in such a history

\* one record, of a confidence below the threshold: its verdict is triggered
\* with a reason of its own (the confidences do not grow with k)
ReasonScores(k) ==
    << <<"Negativo", 40 + ((5 * k) % 11)>>, <<"Neutro", 30>>,
       <<"Positivo", 30 - ((5 * k) % 11)>> >>

\* the verdict of kind k: 0 for the non-triggered verdict of no records, k > 0
\* for the triggered verdict with reason k
VerdictOfKind(k) ==
    IF k = 0 THEN SavedTrigger(0, <<>>)
    ELSE SavedTrigger(0, <<LogOf(0, "text", ReasonScores(k))>>)

KindsSeen(h) == {h[i] : i \in DOMAIN h} \ {0}

RECURSIVE KindHistories(_)
KindHistories(n) ==
    IF n = 0 THEN {<<>>}
    ELSE LET shorter == KindHistories(n - 1)
         IN  shorter \cup
             UNION {{Append(h, k) : k \in 0..(Cardinality(KindsSeen(h)) + 1)} :
                       h \in shorter}

InitReasons ==
    /\ log_file = NoFile
    /\ baseline_file = NoFile
    /\ drift_report_file = NoFile
    /\ now = 0
    /\ drift_threshold = Rat(15, 100)
    /\ confidence_threshold = Rat(70, 100)
    /\ min_samples_for_retraining = 1
    /\ \E h \in KindHistories(MaxReasonHist) :
           trigger_file = File([i \in DOMAIN h |-> TriggerLine(VerdictOfKind(h[i]))])
    /\ call = NoCall
    /\ threads = NoThreads

NextReasons == GetRetrainingStatistics

SpecReasons == InitReasons /\ [][NextReasons]_vars

\* C17: the reasons statistic lists reasons of triggered verdicts only, each
\* once with its number of occurrences among the triggered verdicts, the five
\* most frequent at most, by falling count, equal counts in the order in
\* which the reasons first occur in the history.
C17_ReasonsAreTopFiveTriggered ==
    (call.op = "get_retraining_statistics" /\ get_trigger_history # <<>>) =>
        LET history == get_trigger_history
            reasons == call.result.reasons
            triggered == {i \in DOMAIN history : history[i].triggered.value}
            distinct == {history[i].reason : i \in triggered}
            count(r) == Cardinality({i \in triggered : history[i].reason = r})
            first(r) == CHOOSE i \in triggered :
                            /\ history[i].reason = r
                            /\ \A j \in triggered : history[j].reason = r => i <= j
            before(r, q) ==
                count(r) > count(q) \/ (count(r) = count(q) /\ first(r) < first(q))
            listed == {reasons[k][1] : k \in DOMAIN reasons}
        IN  /\ \A k \in DOMAIN reasons :
                   /\ reasons[k][1] \in distinct
                   /\ reasons[k][2] = count(reasons[k][1])
            /\ Cardinality(listed) = Len(reasons)
            /\ Len(reasons) = (IF Cardinality(distinct) < 5 THEN Cardinality(distinct)
                               ELSE 5)
            /\ \A k, l \in DOMAIN reasons :
                   k < l => before(reasons[k][1], reasons[l][1])
            /\ \A r \in distinct \ listed :
                   \A k \in DOMAIN reasons : before(reasons[k][1], r)

\* six triggered verdicts of six reasons: the first five to occur are listed
C17_Witness ==
    /\ call.op = "get_retraining_statistics"
    /\ call.result.total_evaluations = 6
    /\ call.result.triggered_count = 6
    /\ Len(call.result.reasons) = 5
    /\ \A k \in 1..5 : call.result.reasons[k] = <<get_trigger_history[k].reason, 1>>

-----------------------------------------------------------------------------
(* The baseline among all the operations: the baseline is written by an     *)
(* operator, the engines evaluate, predictions are logged and cleared, the  *)
(* verdicts are saved and the histories cleared, in any order.             *)

NextFrame ==
    \/ \E logs \in HistoryLogLists : SetBaseline(logs)
    \/ \E logs \in HistoryLogLists : DetectDrift(logs)
    \/ \E logs \in HistoryLogLists : EvaluateRetrainingNeed(logs)
    \/ LogPrediction("text", UnsureNegativo)
    \/ ClearLogs
    \/ \E report \in HeldReports : SaveDriftReport(report)
    \/ \E trigger \in HeldTriggers : SaveTrigger(trigger)
    \/ ClearDriftReports
    \/ ClearTriggers

SpecFrame == InitHistory /\ [][NextFrame]_vars

\* C19: once a baseline exists only set_baseline changes it, so an evaluation
\* after the bootstrap reads the baseline the last set_baseline or the
\* bootstrap left; an evaluation writes no file but the baseline, and the
\* baseline only when there is none and the records are not empty.
C19_OnlySetBaselineChangesBaseline ==
    [][/\ (get_baseline # None /\ call'.op # "set_baseline") =>
              baseline_file' = baseline_file
       /\ call'.op \in {"detect_drift", "evaluate_retraining_need"} =>
              /\ UNCHANGED <<log_file, drift_report_file, trigger_file>>
              /\ call'.baseline = get_baseline
              /\ baseline_file' # baseline_file =>
                     /\ get_baseline = None
                     /\ call'.logs # <<>>
                     /\ baseline_file' = File(BaselineData(call'.logs))]_vars

\* records are evaluated against a baseline of no records while predictions,
\* reports and verdicts are stored: the baseline is the one that was read,
\* not one of the records evaluated
C19_Witness ==
    /\ call.op = "evaluate_retraining_need"
    /\ call.logs # <<>>
    /\ call.baseline # None
    /\ get_baseline = call.baseline
    /\ get_baseline.total_samples = 0
    /\ log_file.exists
    /\ drift_report_file.exists
    /\ trigger_file.exists

=============================================================================
